---- MODULE Spec2Model ----
(***************************************************************************)
(* Camera3D (src/lib/Camera.h): a pose (position, orientation) and the     *)
(* cached view matrix derived from it.                                     *)
(*                                                                         *)
(* Scalars.  The code computes in float.  Here a scalar is an exact        *)
(* element (a + b*sqrt(2)) / d of the field Q(sqrt 2), written <<a, b, d>> *)
(* with d > 0 and gcd(a, b, d) = 1, so that equal scalars are equal        *)
(* tuples.  All rotations by multiples of 90 degrees about the coordinate  *)
(* axes, and their quaternions, live in this field.  <<0, 0, 0>> stands    *)
(* for a float that is not a number (NaN): every operation on it gives     *)
(* NaN and every ordered comparison with it is false.  Rounding is not     *)
(* modelled: an equality proved here is an equality of real numbers, which *)
(* the float code meets to within its rounding error.                      *)
(*                                                                         *)
(* Angles are integers in units of 45 degrees (2 = 90 degrees = pi/2).     *)
(* Vectors, quaternions <<w, x, y, z>> and matrices are tuples; a mat4 is  *)
(* a tuple of four columns, m[c][r], as glm stores it.                     *)
(***************************************************************************)
EXTENDS Integers, Sequences, FiniteSets, TLC

VARIABLES
  position,     \* glm::vec3 position
  orientation,  \* glm::quat orientation
  viewMatrix,   \* glm::mat4 viewMatrix
  last,         \* the call that produced this state: [op, args]
  calls         \* the number of mutator calls since construction

vars == <<position, orientation, viewMatrix, last, calls>>

pose == <<position, orientation, viewMatrix>>

-----------------------------------------------------------------------------
(* Scalars *)

RECURSIVE Gcd(_, _)
Gcd(m, n) == IF n = 0 THEN m ELSE Gcd(n, m % n)

Abs(n) == IF n < 0 THEN -n ELSE n

NaN == <<0, 0, 0>>

IsNaN(x) == x[3] = 0

\* (a + b*sqrt2)/d in lowest terms, d >= 0; NaN when d = 0
Num(a, b, d) ==
  IF d = 1 THEN <<a, b, 1>>
  ELSE IF d = 0 THEN NaN
  ELSE LET g == Gcd(Gcd(Abs(a), Abs(b)), d)
       IN  <<a \div g, b \div g, d \div g>>

Zero == <<0, 0, 1>>
One == <<1, 0, 1>>
Two == <<2, 0, 1>>
Sqrt2 == <<0, 1, 1>>
HalfSqrt2 == <<0, 1, 2>>
Int2Num(n) == <<n, 0, 1>>

\* a NaN operand has d = 0, and so has the result
Add(x, y) ==
  Num(x[1] * y[3] + y[1] * x[3], x[2] * y[3] + y[2] * x[3], x[3] * y[3])

Neg(x) == <<-x[1], -x[2], x[3]>>

Sub(x, y) == Add(x, Neg(y))

Mul(x, y) ==
  Num(x[1] * y[1] + 2 * x[2] * y[2], x[1] * y[2] + x[2] * y[1], x[3] * y[3])

\* sign of a + b*sqrt2 (a^2 = 2 b^2 only when a = b = 0)
SignAB(a, b) ==
  IF a = 0 /\ b = 0 THEN 0
  ELSE IF a >= 0 /\ b >= 0 THEN 1
  ELSE IF a <= 0 /\ b <= 0 THEN -1
  ELSE IF a > 0 THEN (IF a * a > 2 * b * b THEN 1 ELSE -1)
  ELSE (IF 2 * b * b > a * a THEN 1 ELSE -1)

Sign(x) == SignAB(x[1], x[2])

\* ordered comparisons; false when either side is NaN, as for floats
Gt(x, y) == ~IsNaN(x) /\ ~IsNaN(y) /\ Sign(Sub(x, y)) = 1
Le(x, y) == ~IsNaN(x) /\ ~IsNaN(y) /\ Sign(Sub(x, y)) <= 0

AbsNum(x) == IF Sign(x) < 0 THEN Neg(x) ELSE x

\* 1/x = d*(a - b*sqrt2) / (a^2 - 2 b^2).  The float 1/0 is infinity; the code
\* only ever multiplies it by zero, which is NaN, so 1/0 is NaN here.
Inv(x) ==
  IF IsNaN(x) \/ Sign(x) = 0 THEN NaN
  ELSE LET n == x[1] * x[1] - 2 * x[2] * x[2]
           s == IF n < 0 THEN -1 ELSE 1
           g == Gcd(Gcd(Abs(x[3] * x[1]), Abs(x[3] * x[2])), Abs(n))
       IN  <<(s * x[3] * x[1]) \div g, (-s * x[3] * x[2]) \div g, Abs(n) \div g>>

\* the square roots the model's inputs need
Roots == {Zero, One, Sqrt2, Two, <<3, 0, 1>>, <<5, 0, 1>>}

Sqrt(x) == IF IsNaN(x) THEN NaN ELSE CHOOSE r \in Roots : Mul(r, r) = x

\* cos and sin of a multiple of 45 degrees
Cos(a) ==
  CASE a % 8 = 0 -> One
    [] a % 8 \in {1, 7} -> HalfSqrt2
    [] a % 8 \in {2, 6} -> Zero
    [] a % 8 \in {3, 5} -> Neg(HalfSqrt2)
    [] a % 8 = 4 -> Neg(One)

Sin(a) == Cos(a - 2)

\* atan2(y, x) in units of 45 degrees, for arguments on the eight compass
\* directions; atan2(0, 0) = 0 as in C
Atan2(y, x) ==
  LET sy == Sign(y)
      sx == Sign(x)
  IN  IF sy = 0 THEN (IF sx >= 0 THEN 0 ELSE 4)
      ELSE IF sx = 0 THEN 2 * sy
      ELSE CHOOSE k \in {-3, -1, 1, 3} :
             /\ AbsNum(y) = AbsNum(x)
             /\ k = sy * (IF sx > 0 THEN 1 ELSE 3)

\* asin of -1, 0 or 1, in units of 45 degrees
Asin(x) == CHOOSE k \in {-2, 0, 2} : Int2Num(k \div 2) = x

-----------------------------------------------------------------------------
(* glm: vectors, quaternions and matrices *)

vec3(x, y, z) == <<x, y, z>>
ivec3(x, y, z) == <<Int2Num(x), Int2Num(y), Int2Num(z)>>

VAdd(u, v) == <<Add(u[1], v[1]), Add(u[2], v[2]), Add(u[3], v[3])>>
VSub(u, v) == <<Sub(u[1], v[1]), Sub(u[2], v[2]), Sub(u[3], v[3])>>
VNeg(v) == <<Neg(v[1]), Neg(v[2]), Neg(v[3])>>
VScale(v, s) == <<Mul(v[1], s), Mul(v[2], s), Mul(v[3], s)>>

glm_dot(u, v) == Add(Add(Mul(u[1], v[1]), Mul(u[2], v[2])), Mul(u[3], v[3]))

glm_cross(u, v) ==
  <<Sub(Mul(u[2], v[3]), Mul(v[2], u[3])),
    Sub(Mul(u[3], v[1]), Mul(v[3], u[1])),
    Sub(Mul(u[1], v[2]), Mul(v[1], u[2]))>>

\* glm::normalize(vec3): v * inversesqrt(dot(v, v))
glm_normalize3(v) == VScale(v, Inv(Sqrt(glm_dot(v, v))))

\* the identity quaternion, glm::quat's default constructor
QuatIdentity == <<One, Zero, Zero, Zero>>

QDot(p, q) ==
  Add(Add(Mul(p[1], q[1]), Mul(p[2], q[2])), Add(Mul(p[3], q[3]), Mul(p[4], q[4])))

\* glm::normalize(quat): the identity for a quaternion of length <= 0
glm_normalize(q) ==
  LET len == Sqrt(QDot(q, q))
  IN  IF Le(len, Zero) THEN QuatIdentity
      ELSE LET oneOverLen == Inv(len)
           IN  <<Mul(q[1], oneOverLen), Mul(q[2], oneOverLen),
                 Mul(q[3], oneOverLen), Mul(q[4], oneOverLen)>>

\* quat * quat, the Hamilton product
QMul(p, q) ==
  <<Sub(Sub(Mul(p[1], q[1]), Mul(p[2], q[2])), Add(Mul(p[3], q[3]), Mul(p[4], q[4]))),
    Add(Add(Mul(p[1], q[2]), Mul(p[2], q[1])), Sub(Mul(p[3], q[4]), Mul(p[4], q[3]))),
    Add(Add(Mul(p[1], q[3]), Mul(p[3], q[1])), Sub(Mul(p[4], q[2]), Mul(p[2], q[4]))),
    Add(Add(Mul(p[1], q[4]), Mul(p[4], q[1])), Sub(Mul(p[2], q[3]), Mul(p[3], q[2])))>>

\* glm::inverse(quat): conjugate(q) / dot(q, q)
glm_inverse(q) ==
  LET s == Inv(QDot(q, q))
  IN  <<Mul(q[1], s), Mul(Neg(q[2]), s), Mul(Neg(q[3]), s), Mul(Neg(q[4]), s)>>

\* quat * vec3: v rotated by q
QuatTimesVec(q, v) ==
  LET QuatVector == <<q[2], q[3], q[4]>>
      uv == glm_cross(QuatVector, v)
      uuv == glm_cross(QuatVector, uv)
  IN  VAdd(v, VScale(VAdd(VScale(uv, q[1]), uuv), Two))

\* vec3 * quat: glm defines it as inverse(q) * v
VecTimesQuat(v, q) == QuatTimesVec(glm_inverse(q), v)

\* glm::angleAxis(angle, axis)
glm_angleAxis(angle, axis) ==
  LET s == Sin(angle \div 2)
  IN  <<Cos(angle \div 2), Mul(axis[1], s), Mul(axis[2], s), Mul(axis[3], s)>>

\* glm::quat(vec3 eulerAngles), angles = (pitch, yaw, roll)
glm_quat(angles) ==
  LET cx == Cos(angles[1] \div 2)
      cy == Cos(angles[2] \div 2)
      cz == Cos(angles[3] \div 2)
      sx == Sin(angles[1] \div 2)
      sy == Sin(angles[2] \div 2)
      sz == Sin(angles[3] \div 2)
  IN  <<Add(Mul(Mul(cx, cy), cz), Mul(Mul(sx, sy), sz)),
        Sub(Mul(Mul(sx, cy), cz), Mul(Mul(cx, sy), sz)),
        Add(Mul(Mul(cx, sy), cz), Mul(Mul(sx, cy), sz)),
        Sub(Mul(Mul(cx, cy), sz), Mul(Mul(sx, sy), cz))>>

\* glm::pitch, glm::yaw, glm::roll of a quaternion
glm_pitch(q) ==
  Atan2(Mul(Two, Add(Mul(q[3], q[4]), Mul(q[1], q[2]))),
        Add(Sub(Sub(Mul(q[1], q[1]), Mul(q[2], q[2])), Mul(q[3], q[3])), Mul(q[4], q[4])))

glm_yaw(q) ==
  LET v == Mul(Int2Num(-2), Sub(Mul(q[2], q[4]), Mul(q[1], q[3])))
  IN  Asin(IF Gt(v, One) THEN One ELSE IF Gt(Neg(One), v) THEN Neg(One) ELSE v)

glm_roll(q) ==
  Atan2(Mul(Two, Add(Mul(q[2], q[3]), Mul(q[1], q[4]))),
        Sub(Sub(Add(Mul(q[1], q[1]), Mul(q[2], q[2])), Mul(q[3], q[3])), Mul(q[4], q[4])))

glm_eulerAngles(q) == <<glm_pitch(q), glm_yaw(q), glm_roll(q)>>

\* the identity matrix, glm::mat4's default constructor
Mat4Identity ==
  <<<<One, Zero, Zero, Zero>>, <<Zero, One, Zero, Zero>>,
    <<Zero, Zero, One, Zero>>, <<Zero, Zero, Zero, One>>>>

\* glm::mat4_cast(quat)
glm_mat4_cast(q) ==
  LET qxx == Mul(q[2], q[2])
      qyy == Mul(q[3], q[3])
      qzz == Mul(q[4], q[4])
      qxz == Mul(q[2], q[4])
      qxy == Mul(q[2], q[3])
      qyz == Mul(q[3], q[4])
      qwx == Mul(q[1], q[2])
      qwy == Mul(q[1], q[3])
      qwz == Mul(q[1], q[4])
  IN  <<<<Sub(One, Mul(Two, Add(qyy, qzz))), Mul(Two, Add(qxy, qwz)),
          Mul(Two, Sub(qxz, qwy)), Zero>>,
        <<Mul(Two, Sub(qxy, qwz)), Sub(One, Mul(Two, Add(qxx, qzz))),
          Mul(Two, Add(qyz, qwx)), Zero>>,
        <<Mul(Two, Add(qxz, qwy)), Mul(Two, Sub(qyz, qwx)),
          Sub(One, Mul(Two, Add(qxx, qyy))), Zero>>,
        <<Zero, Zero, Zero, One>>>>

V4Add(u, v) == <<Add(u[1], v[1]), Add(u[2], v[2]), Add(u[3], v[3]), Add(u[4], v[4])>>
V4Scale(v, s) == <<Mul(v[1], s), Mul(v[2], s), Mul(v[3], s), Mul(v[4], s)>>

\* mat4 * vec4
Mat4TimesVec(m, v) ==
  V4Add(V4Add(V4Scale(m[1], v[1]), V4Scale(m[2], v[2])),
        V4Add(V4Scale(m[3], v[3]), V4Scale(m[4], v[4])))

\* mat4 * mat4
Mat4Mul(m1, m2) ==
  <<Mat4TimesVec(m1, m2[1]), Mat4TimesVec(m1, m2[2]),
    Mat4TimesVec(m1, m2[3]), Mat4TimesVec(m1, m2[4])>>

\* glm::translate(m, v): the last column becomes m[0]*v.x + m[1]*v.y + m[2]*v.z + m[3]
glm_translate(m, v) ==
  <<m[1], m[2], m[3],
    V4Add(V4Add(V4Scale(m[1], v[1]), V4Scale(m[2], v[2])),
          V4Add(V4Scale(m[3], v[3]), m[4]))>>

\* glm::lookAt(eye, center, up), right-handed
glm_lookAt(eye, center, up) ==
  LET f == glm_normalize3(VSub(center, eye))
      s == glm_normalize3(glm_cross(f, up))
      u == glm_cross(s, f)
  IN  <<<<s[1], u[1], Neg(f[1]), Zero>>,
        <<s[2], u[2], Neg(f[2]), Zero>>,
        <<s[3], u[3], Neg(f[3]), Zero>>,
        <<Neg(glm_dot(s, eye)), Neg(glm_dot(u, eye)), glm_dot(f, eye), One>>>>

-----------------------------------------------------------------------------
(* Bounds and inputs *)

\* the camera's owner makes at most MaxCalls mutator calls after constructing it
MaxCalls == 2

Frac(n, d) == Num(n, 0, d)

AxisX == ivec3(1, 0, 0)
AxisY == ivec3(0, 1, 0)
AxisZ == ivec3(0, 0, 1)
Origin == ivec3(0, 0, 0)

\* positions handed to the constructors: (1.5, 0.2, -1.2) and (1.1, 0.1, 0.3)
CtorPosInputs ==
  { vec3(Frac(3, 2), Frac(1, 5), Frac(-6, 5)),
    vec3(Frac(11, 10), Frac(1, 10), Frac(3, 10)) }

\* positions handed to setPosition
PosInputs == {Origin, ivec3(1, 0, 1)}

\* vectors handed to translate(v), and the triple handed to translate(x, y, z)
TranslateInputs == {AxisX, ivec3(0, 0, -1)}
TranslateXYZ == vec3(Zero, Frac(1, 2), Zero)

\* scalars handed to setX, setY, setZ
CoordInputs == {Zero, Frac(5, 2)}

\* 180 degrees about y, as glm::quat(vec3(0, radians(180), 0)) gives it
QuatY180 == <<Zero, Zero, One, Zero>>

\* quaternions handed to the constructor and to setOrientation: of lengths
\* 1, 2 and 3
SetQuatInputs ==
  {QuatY180, <<One, One, One, One>>, <<Int2Num(-3), Zero, Zero, Zero>>}

\* quaternions handed to rotate(q): -90 degrees about x as
\* glm::quat(vec3(radians(-90), 0, 0)) gives it, and two that are not of unit
\* length (sqrt 2 and 2)
RotateQuatInputs ==
  { <<HalfSqrt2, Neg(HalfSqrt2), Zero, Zero>>,
    <<One, Zero, One, Zero>>,
    <<Zero, Zero, Zero, Two>> }

\* angles handed to pitch, yaw, roll, setPitch, setYaw, setRoll: 90 and -90
\* degrees
AngleInputs == {2, -2}

\* Euler angle triples handed to rotate(angles) and setEulerAngles
EulerInputs == {<<0, -2, 0>>, <<2, 0, 2>>}

\* (angle, axis) pairs handed to rotate(angle, axis)
AngleAxisInputs == {<<2, AxisX>>, <<2, AxisY>>, <<-2, AxisZ>>}

-----------------------------------------------------------------------------
(* Camera3D *)

\* Camera3D::updateViewMatrix: the matrix it stores in viewMatrix
updateViewMatrix(pos, ori) ==
  LET rotate == glm_mat4_cast(ori)
      translate == glm_translate(Mat4Identity, VNeg(pos))
  IN  Mat4Mul(rotate, translate)

Call(op, args) == [op |-> op, args |-> args]

\* Camera3D(): glm's default constructors give a zero position and the
\* identity orientation
Camera3D_default ==
  /\ position = Origin
  /\ orientation = QuatIdentity
  /\ viewMatrix = updateViewMatrix(position, orientation)
  /\ last = Call("Camera3D()", <<>>)
  /\ calls = 0

\* Camera3D(const glm::vec3 &position)
Camera3D_pos(p) ==
  /\ position = p
  /\ orientation = QuatIdentity
  /\ viewMatrix = updateViewMatrix(position, orientation)
  /\ last = Call("Camera3D(position)", <<p>>)
  /\ calls = 0

\* mutant: the constructor stores the quaternion as given
Camera3D_pos_ori_raw(p, q) ==
  /\ position = p
  /\ orientation = q
  /\ viewMatrix = updateViewMatrix(position, orientation)
  /\ last = Call("Camera3D(position,orientation)", <<p, q>>)
  /\ calls = 0

\* Camera3D(const glm::vec3 &position, const glm::quat orientation)
Camera3D_pos_ori(p, q) ==
  /\ position = p
  /\ orientation = glm_normalize(q)
  /\ viewMatrix = updateViewMatrix(position, orientation)
  /\ last = Call("Camera3D(position,orientation)", <<p, q>>)
  /\ calls = 0

Init ==
  \/ Camera3D_default
  \/ \E p \in CtorPosInputs : Camera3D_pos(p)
  \/ \E p \in CtorPosInputs, q \in SetQuatInputs : Camera3D_pos_ori(p, q)

\* the accessors' return values
getViewMatrix == viewMatrix
getEulerAngles == glm_eulerAngles(orientation)
getOrientation == orientation
getPitch == glm_pitch(orientation)
getYaw == glm_yaw(orientation)
getRoll == glm_roll(orientation)
getPosition == position
getX == position[1]
getY == position[2]
getZ == position[3]

\* a call of an accessor: it returns its value and assigns nothing
Read(value) == UNCHANGED vars

\* mutant: rotate(q) without the normalization
rotate_quat_unnormalized(q) ==
  /\ orientation' = QMul(orientation, q)
  /\ viewMatrix' = updateViewMatrix(position, orientation')
  /\ UNCHANGED position

\* mutant: rotate(q) multiplying on the left
rotate_quat_left(q) ==
  /\ orientation' = glm_normalize(QMul(q, orientation))
  /\ viewMatrix' = updateViewMatrix(position, orientation')
  /\ UNCHANGED position

\* rotate(const glm::quat &q)
rotate_quat(q) ==
  /\ orientation' = glm_normalize(QMul(orientation, q))
  /\ viewMatrix' = updateViewMatrix(position, orientation')
  /\ UNCHANGED position

\* rotate(const glm::vec3 &angles)
rotate_euler(angles) == rotate_quat(glm_quat(angles))

\* rotate(float angle, const glm::vec3 axis)
rotate_angle_axis(angle, axis) == rotate_quat(glm_angleAxis(angle, axis))

\* mutant: translate(v) with the operands swapped, orientation * v
translate_vec_forward(v) ==
  /\ position' = VAdd(position, QuatTimesVec(orientation, v))
  /\ viewMatrix' = updateViewMatrix(position', orientation)
  /\ UNCHANGED orientation

\* mutant: translate(v) along the world axes
translate_vec_world(v) ==
  /\ position' = VAdd(position, v)
  /\ viewMatrix' = updateViewMatrix(position', orientation)
  /\ UNCHANGED orientation

\* translate(const glm::vec3 &v)
translate_vec(v) ==
  /\ position' = VAdd(position, VecTimesQuat(v, orientation))
  /\ viewMatrix' = updateViewMatrix(position', orientation)
  /\ UNCHANGED orientation

\* translate(float x, float y, float z)
translate_xyz(x, y, z) == translate_vec(vec3(x, y, z))

\* mutant: pitch about the y axis
pitch_aboutY(angle) == rotate_angle_axis(angle, AxisY)

\* pitch(float angle)
pitch(angle) == rotate_angle_axis(angle, AxisX)

\* mutant: yaw turning the other way
yaw_negated(angle) == rotate_angle_axis(-angle, AxisY)

\* yaw(float angle)
yaw(angle) == rotate_angle_axis(angle, AxisY)

\* roll(float angle)
roll(angle) == rotate_angle_axis(angle, AxisZ)

setEulerAngles(angles) ==
  /\ orientation' = glm_normalize(glm_quat(angles))
  /\ viewMatrix' = updateViewMatrix(position, orientation')
  /\ UNCHANGED position

\* mutant: setOrientation composing with the current orientation
setOrientation_compose(q) ==
  /\ orientation' = glm_normalize(QMul(orientation, q))
  /\ viewMatrix' = updateViewMatrix(position, orientation')
  /\ UNCHANGED position

setOrientation(q) ==
  /\ orientation' = glm_normalize(q)
  /\ viewMatrix' = updateViewMatrix(position, orientation')
  /\ UNCHANGED position

setPitch(radians) == setEulerAngles([getEulerAngles EXCEPT ![1] = radians])

setYaw(radians) == setEulerAngles([getEulerAngles EXCEPT ![2] = radians])

setRoll(radians) == setEulerAngles([getEulerAngles EXCEPT ![3] = radians])

setPosition(v) ==
  /\ position' = v
  /\ viewMatrix' = updateViewMatrix(position', orientation)
  /\ UNCHANGED orientation

setX(x) ==
  /\ position' = [position EXCEPT ![1] = x]
  /\ viewMatrix' = updateViewMatrix(position', orientation)
  /\ UNCHANGED orientation

\* mutant: setY writing the x component
setY_wrongComponent(y) ==
  /\ position' = [position EXCEPT ![1] = y]
  /\ viewMatrix' = updateViewMatrix(position', orientation)
  /\ UNCHANGED orientation

setY(y) ==
  /\ position' = [position EXCEPT ![2] = y]
  /\ viewMatrix' = updateViewMatrix(position', orientation)
  /\ UNCHANGED orientation

\* mutant: setZ without the update of the view matrix
setZ_stale(z) ==
  /\ position' = [position EXCEPT ![3] = z]
  /\ UNCHANGED <<orientation, viewMatrix>>

setZ(z) ==
  /\ position' = [position EXCEPT ![3] = z]
  /\ viewMatrix' = updateViewMatrix(position', orientation)
  /\ UNCHANGED orientation

\* bookkeeping of a mutator call
Called(op, args) ==
  /\ calls < MaxCalls
  /\ calls' = calls + 1
  /\ last' = Call(op, args)

\* one call by the camera's owner
Next ==
  \/ \E q \in RotateQuatInputs : Called("rotate(q)", <<q>>) /\ rotate_quat(q)
  \/ \E a \in EulerInputs : Called("rotate(angles)", <<a>>) /\ rotate_euler(a)
  \/ \E p \in AngleAxisInputs :
       Called("rotate(angle,axis)", p) /\ rotate_angle_axis(p[1], p[2])
  \/ \E a \in AngleInputs : Called("pitch", <<a>>) /\ pitch(a)
  \/ \E a \in AngleInputs : Called("yaw", <<a>>) /\ yaw(a)
  \/ \E a \in AngleInputs : Called("roll", <<a>>) /\ roll(a)
  \/ \E v \in TranslateInputs : Called("translate(v)", <<v>>) /\ translate_vec(v)
  \/ /\ Called("translate(x,y,z)", <<TranslateXYZ>>)
     /\ translate_xyz(TranslateXYZ[1], TranslateXYZ[2], TranslateXYZ[3])
  \/ \E a \in EulerInputs : Called("setEulerAngles", <<a>>) /\ setEulerAngles(a)
  \/ \E q \in SetQuatInputs : Called("setOrientation", <<q>>) /\ setOrientation(q)
  \/ /\ Called("setOrientation(getOrientation())", <<>>)
     /\ setOrientation(getOrientation)
  \/ \E a \in AngleInputs : Called("setPitch", <<a>>) /\ setPitch(a)
  \/ \E a \in AngleInputs : Called("setYaw", <<a>>) /\ setYaw(a)
  \/ \E a \in AngleInputs : Called("setRoll", <<a>>) /\ setRoll(a)
  \/ \E v \in PosInputs : Called("setPosition", <<v>>) /\ setPosition(v)
  \/ Called("setPosition(getPosition())", <<>>) /\ setPosition(getPosition)
  \/ \E x \in CoordInputs : Called("setX", <<x>>) /\ setX(x)
  \/ \E y \in CoordInputs : Called("setY", <<y>>) /\ setY(y)
  \/ \E z \in CoordInputs : Called("setZ", <<z>>) /\ setZ(z)
  \/ Read(getViewMatrix)
  \/ Read(getEulerAngles)
  \/ Read(getOrientation)
  \/ Read(getPitch)
  \/ Read(getYaw)
  \/ Read(getRoll)
  \/ Read(getPosition)
  \/ Read(getX)
  \/ Read(getY)
  \/ Read(getZ)

Spec == Init /\ [][Next]_vars

-----------------------------------------------------------------------------
(* What the claims speak of *)

\* the model's angles: every Euler angle read back is a multiple of 90 degrees,
\* so that its half angle is a multiple of 45 degrees
EulerAnglesRepresentable == \A i \in 1..3 : getEulerAngles[i] % 2 = 0

\* const float EPSILON = 1e-6f
EPSILON == Frac(1, 1000000)

\* mat4Equivalent of the tests: a NaN entry never compares greater than EPSILON
mat4Equivalent(a, b) ==
  \A i \in 1..4 : \A j \in 1..4 :
    ~Gt(AbsNum(Sub(a[i][j], b[i][j])), EPSILON)

HasNaN(m) == \E i \in 1..4 : \E j \in 1..4 : IsNaN(m[i][j])

\* the rotation of q as a matrix: column i is the unit vector e_i rotated by q
RotationMatrix(q) ==
  LET c1 == QuatTimesVec(q, AxisX)
      c2 == QuatTimesVec(q, AxisY)
      c3 == QuatTimesVec(q, AxisZ)
  IN  <<<<c1[1], c1[2], c1[3], Zero>>, <<c2[1], c2[2], c2[3], Zero>>,
        <<c3[1], c3[2], c3[3], Zero>>, <<Zero, Zero, Zero, One>>>>

TranslationMatrix(t) ==
  <<<<One, Zero, Zero, Zero>>, <<Zero, One, Zero, Zero>>,
    <<Zero, Zero, One, Zero>>, <<t[1], t[2], t[3], One>>>>

\* entry (row r, column c) of the product a * b
ProductEntry(a, b, r, c) ==
  Add(Add(Mul(a[1][r], b[c][1]), Mul(a[2][r], b[c][2])),
      Add(Mul(a[3][r], b[c][3]), Mul(a[4][r], b[c][4])))

IsProduct(m, a, b) ==
  \A c \in 1..4 : \A r \in 1..4 : m[c][r] = ProductEntry(a, b, r, c)

\* the rotation part of a view matrix, applied to v, and its inverse
\* (transpose), applied to v
ApplyRotation(m, v) ==
  <<Add(Add(Mul(m[1][1], v[1]), Mul(m[2][1], v[2])), Mul(m[3][1], v[3])),
    Add(Add(Mul(m[1][2], v[1]), Mul(m[2][2], v[2])), Mul(m[3][2], v[3])),
    Add(Add(Mul(m[1][3], v[1]), Mul(m[2][3], v[2])), Mul(m[3][3], v[3]))>>

ApplyInverseRotation(m, v) ==
  <<glm_dot(<<m[1][1], m[1][2], m[1][3]>>, v),
    glm_dot(<<m[2][1], m[2][2], m[2][3]>>, v),
    glm_dot(<<m[3][1], m[3][2], m[3][3]>>, v)>>

\* the camera-space coordinates of the world point w
ToCamera(m, w) == VAdd(ApplyRotation(m, w), <<m[4][1], m[4][2], m[4][3]>>)

\* the world-space direction of the camera's local axis i (x, y, z = 1, 2, 3)
LocalAxisInWorld(m, i) == <<m[1][i], m[2][i], m[3][i]>>

\* the camera-space direction of the world axis i
WorldAxisInCamera(m, i) == <<m[i][1], m[i][2], m[i][3]>>

\* the world-space direction the camera looks along: its local -z axis
Facing(m) == VNeg(LocalAxisInWorld(m, 3))

QScale(q, s) == <<Mul(q[1], s), Mul(q[2], s), Mul(q[3], s), Mul(q[4], s)>>

\* u is q scaled to unit length
IsNormalized(u, q) ==
  /\ QDot(u, u) = One
  /\ QScale(u, Sqrt(QDot(q, q))) = q

\* the step is a call of mutator op
Step(op) == calls' = calls + 1 /\ last'.op = op

\* the pose of a default-constructed camera
DefaultPose == position = Origin /\ orientation = QuatIdentity

OrientationMutators ==
  { "rotate(q)", "rotate(angles)", "rotate(angle,axis)", "pitch", "yaw", "roll",
    "setOrientation", "setOrientation(getOrientation())", "setEulerAngles",
    "setPitch", "setYaw", "setRoll" }

PositionMutators ==
  { "translate(v)", "translate(x,y,z)", "setPosition",
    "setPosition(getPosition())", "setX", "setY", "setZ" }

WorldPoints == {Origin, ivec3(1, 2, 3), vec3(Frac(-1, 2), Zero, One)}

-----------------------------------------------------------------------------
(* Claims *)

\* C1: in every state a caller can observe, the cached view matrix is
\* rotationMatrix(orientation) * translationMatrix(-position) of the current
\* position and orientation.
C1_ViewMatrixCurrent ==
  IsProduct(getViewMatrix, RotationMatrix(orientation),
            TranslationMatrix(VNeg(position)))

C1_Witness ==
  /\ calls = 2
  /\ last.op \in PositionMutators
  /\ position # Origin
  /\ orientation \notin {QuatIdentity, QScale(QuatIdentity, Neg(One))}

\* C2: the stored orientation has norm 1 in every reachable state, also after
\* inputs that are not of unit length.
C2_UnitOrientation ==
  Add(Add(Mul(orientation[1], orientation[1]), Mul(orientation[2], orientation[2])),
      Add(Mul(orientation[3], orientation[3]), Mul(orientation[4], orientation[4])))
    = One

C2_Witness ==
  /\ last.op = "rotate(q)"
  /\ QDot(last.args[1], last.args[1]) = Two
  /\ calls = 2
  /\ orientation # QuatIdentity

\* a rotation by angle a about axis i leaves the world axis i where it is in
\* camera space and turns the world axes j, k (i, j, k cyclic) about it
TurnsAboutWorldAxis(m, n, a, i, j, k) ==
  /\ WorldAxisInCamera(n, i) = WorldAxisInCamera(m, i)
  /\ WorldAxisInCamera(n, j) =
       VAdd(VScale(WorldAxisInCamera(m, j), Cos(a)), VScale(WorldAxisInCamera(m, k), Sin(a)))
  /\ WorldAxisInCamera(n, k) =
       VSub(VScale(WorldAxisInCamera(m, k), Cos(a)), VScale(WorldAxisInCamera(m, j), Sin(a)))

\* a default camera after yaw(90 degrees)
YawedDefault ==
  /\ last = Call("yaw", <<2>>)
  /\ calls = 1
  /\ position = Origin
  /\ orientation = glm_angleAxis(2, AxisY)

\* C3 as stated: rotate(q) sets orientation to normalize(orientation * q), and
\* pitch, yaw, roll turn the camera about its own local x, y, z axis: the
\* world-space direction of that local axis is the same before and after the
\* call; after yaw(90) on a default camera, pitch(90) changes the facing
\* direction.
C3_LocalFrame ==
  [][ /\ Step("rotate(q)") =>
           IsNormalized(orientation', QMul(orientation, last'.args[1]))
      /\ Step("pitch") =>
           LocalAxisInWorld(viewMatrix', 1) = LocalAxisInWorld(viewMatrix, 1)
      /\ Step("yaw") =>
           LocalAxisInWorld(viewMatrix', 2) = LocalAxisInWorld(viewMatrix, 2)
      /\ Step("roll") =>
           LocalAxisInWorld(viewMatrix', 3) = LocalAxisInWorld(viewMatrix, 3)
      /\ (YawedDefault /\ Step("pitch") /\ last'.args = <<2>>) =>
           Facing(viewMatrix') # Facing(viewMatrix) ]_vars

\* C3 as amended: rotate(q) sets orientation to normalize(orientation * q), and
\* with the view matrix rotationMatrix(orientation) * translationMatrix(-position)
\* that is a rotation about the world axes: the rotation part of the view
\* matrix becomes (old rotation part) * rotationMatrix(normalize(q)); pitch,
\* yaw, roll by a leave the camera-space direction of the world x, y, z axis
\* unchanged and turn the other two world axes about it by a; after yaw(90)
\* on a default camera, pitch(90) leaves the facing direction where it was.
C3_WorldFrame ==
  [][ /\ Step("rotate(q)") =>
           /\ IsNormalized(orientation', QMul(orientation, last'.args[1]))
           /\ \A i \in 1..3 :
                WorldAxisInCamera(viewMatrix', i) =
                  ApplyRotation(viewMatrix,
                                QuatTimesVec(glm_normalize(last'.args[1]), ivec3(
                                  IF i = 1 THEN 1 ELSE 0, IF i = 2 THEN 1 ELSE 0,
                                  IF i = 3 THEN 1 ELSE 0)))
      /\ Step("pitch") =>
           /\ orientation' = QMul(orientation, glm_angleAxis(last'.args[1], AxisX))
           /\ TurnsAboutWorldAxis(viewMatrix, viewMatrix', last'.args[1], 1, 2, 3)
      /\ Step("yaw") =>
           /\ orientation' = QMul(orientation, glm_angleAxis(last'.args[1], AxisY))
           /\ TurnsAboutWorldAxis(viewMatrix, viewMatrix', last'.args[1], 2, 3, 1)
      /\ Step("roll") =>
           /\ orientation' = QMul(orientation, glm_angleAxis(last'.args[1], AxisZ))
           /\ TurnsAboutWorldAxis(viewMatrix, viewMatrix', last'.args[1], 3, 1, 2)
      /\ (YawedDefault /\ Step("pitch") /\ last'.args = <<2>>) =>
           /\ Facing(viewMatrix) = AxisX
           /\ Facing(viewMatrix') = Facing(viewMatrix) ]_vars

\* a pitch of a camera whose local x axis is not along the world x axis
C3_Witness ==
  /\ last.op = "pitch"
  /\ calls = 2
  /\ LocalAxisInWorld(viewMatrix, 1) \notin {AxisX, VNeg(AxisX)}

\* C4 as stated: translate(v) sets position to position + (the rotation of
\* orientation, the one in the view matrix, applied to v); orientation is
\* unchanged.
C4_TranslateByOrientation ==
  [][ (Step("translate(v)") \/ Step("translate(x,y,z)")) =>
        /\ position' = VAdd(position, QuatTimesVec(orientation, last'.args[1]))
        /\ position' = VAdd(position, ApplyRotation(viewMatrix, last'.args[1]))
        /\ orientation' = orientation ]_vars

\* C4 as amended: translate(v) sets position to position + (the INVERSE of
\* the rotation of orientation applied to v), that is v[1], v[2], v[3] along
\* the camera's local x, y, z axes; orientation is unchanged.
C4_TranslateByInverseOrientation ==
  [][ (Step("translate(v)") \/ Step("translate(x,y,z)")) =>
        /\ position' = VAdd(position, ApplyInverseRotation(viewMatrix, last'.args[1]))
        /\ position' =
             VAdd(position,
                  VAdd(VScale(LocalAxisInWorld(viewMatrix, 1), last'.args[1][1]),
                       VAdd(VScale(LocalAxisInWorld(viewMatrix, 2), last'.args[1][2]),
                            VScale(LocalAxisInWorld(viewMatrix, 3), last'.args[1][3]))))
        /\ orientation' = orientation ]_vars

\* a translate of a camera whose rotation is not its own inverse
C4_Witness ==
  /\ last.op = "translate(v)"
  /\ calls = 2
  /\ \E i \in 1..3 : LocalAxisInWorld(viewMatrix, i) # WorldAxisInCamera(viewMatrix, i)

\* C5: translate(v) shifts the camera-space coordinates of every world point
\* by exactly -v, so translate(0, 0, -1) moves the eye one unit along the
\* facing direction; a default camera rotated 90 degrees about y and
\* translated by (1, 0, 0) is at (0, 0, 1) with the view matrix
\* lookAt((0,0,1), (1,0,1), (0,1,0)); a default camera translated by
\* (0, 0.5, 0) has the view matrix lookAt((0,0.5,0), (0,0.5,-1), (0,1,0)).
C5_TranslateRelativeToFacing ==
  [][ /\ (Step("translate(v)") \/ Step("translate(x,y,z)")) =>
           /\ \A w \in WorldPoints :
                ToCamera(viewMatrix', w) = VSub(ToCamera(viewMatrix, w), last'.args[1])
           /\ last'.args[1] = ivec3(0, 0, -1) =>
                position' = VAdd(position, Facing(viewMatrix))
      /\ ( /\ position = Origin
           /\ orientation = glm_angleAxis(2, AxisY)
           /\ Step("translate(v)")
           /\ last'.args[1] = AxisX ) =>
           /\ position' = ivec3(0, 0, 1)
           /\ viewMatrix' = glm_lookAt(ivec3(0, 0, 1), ivec3(1, 0, 1), AxisY)
      /\ (DefaultPose /\ Step("translate(x,y,z)")) =>
           viewMatrix' =
             glm_lookAt(vec3(Zero, Frac(1, 2), Zero), vec3(Zero, Frac(1, 2), Int2Num(-1)),
                        AxisY) ]_vars

C5_Witness ==
  /\ last = Call("translate(v)", <<AxisX>>)
  /\ calls = 2
  /\ position = ivec3(0, 0, 1)
  /\ viewMatrix = glm_lookAt(ivec3(0, 0, 1), ivec3(1, 0, 1), AxisY)

\* C6: the default constructor gives position (0,0,0), the identity
\* orientation and the identity view matrix; Camera3D(p) gives position p, the
\* identity orientation and the view matrix lookAt(p, p + (0,0,-1), (0,1,0));
\* Camera3D(p, q) gives position p and orientation normalize(q), and for q =
\* 180 degrees about y the view matrix lookAt(p, p + (0,0,1), (0,1,0)).
C6_Construction ==
  /\ last.op = "Camera3D()" =>
       /\ getPosition = Origin
       /\ getOrientation = QuatIdentity
       /\ getViewMatrix = Mat4Identity
       /\ getViewMatrix = glm_lookAt(Origin, ivec3(0, 0, -1), AxisY)
  /\ last.op = "Camera3D(position)" =>
       /\ getPosition = last.args[1]
       /\ getOrientation = QuatIdentity
       /\ getViewMatrix =
            glm_lookAt(last.args[1], VAdd(last.args[1], ivec3(0, 0, -1)), AxisY)
  /\ last.op = "Camera3D(position,orientation)" =>
       /\ getPosition = last.args[1]
       /\ IsNormalized(getOrientation, last.args[2])
       /\ last.args[2] = QuatY180 =>
            getViewMatrix =
              glm_lookAt(last.args[1], VAdd(last.args[1], ivec3(0, 0, 1)), AxisY)

C6_Witness ==
  /\ last.op = "Camera3D(position,orientation)"
  /\ last.args[2] = <<One, One, One, One>>
  /\ orientation = <<Frac(1, 2), Frac(1, 2), Frac(1, 2), Frac(1, 2)>>

\* the view matrix of a camera at the origin turned 90 degrees about x: the
\* camera-space coordinates of (x, y, z) are (x, -z, y)
PitchedView ==
  <<<<One, Zero, Zero, Zero>>, <<Zero, Zero, One, Zero>>,
    <<Zero, Int2Num(-1), Zero, Zero>>, <<Zero, Zero, Zero, One>>>>

\* the reference matrix of the pitch tests
PitchLookAt == glm_lookAt(Origin, ivec3(0, -1, 0), AxisY)

\* C7 as stated: pitch(90) on a default camera gives the view matrix that
\* rotate(90, (1,0,0)) gives, and it equals lookAt(origin, (0,-1,0), (0,1,0))
\* entry by entry.
C7_PitchEqualsLookAt ==
  [][ /\ (DefaultPose /\ Step("pitch") /\ last'.args = <<2>>) =>
           viewMatrix' = PitchedView /\ viewMatrix' = PitchLookAt
      /\ (DefaultPose /\ Step("rotate(angle,axis)") /\ last'.args = <<2, AxisX>>) =>
           viewMatrix' = PitchedView /\ viewMatrix' = PitchLookAt ]_vars

\* C7 as amended: pitch(90) on a default camera gives the view matrix that
\* rotate(90, (1,0,0)) gives: the camera looks along -y with -z up, the
\* matrix lookAt(origin, (0,-1,0), (0,0,-1)).  lookAt(origin, (0,-1,0),
\* (0,1,0)) is no reference for it: its forward and up vectors are parallel
\* and its entries are NaN; the tests' mat4Equivalent accepts it all the same.
C7_PitchEqualsRotateX ==
  [][ /\ (DefaultPose /\ Step("pitch") /\ last'.args = <<2>>) =>
           /\ viewMatrix' = PitchedView
           /\ viewMatrix' = glm_lookAt(Origin, ivec3(0, -1, 0), ivec3(0, 0, -1))
           /\ HasNaN(PitchLookAt)
           /\ mat4Equivalent(viewMatrix', PitchLookAt)
      /\ (DefaultPose /\ Step("rotate(angle,axis)") /\ last'.args = <<2, AxisX>>) =>
           /\ viewMatrix' = PitchedView
           /\ mat4Equivalent(viewMatrix', PitchLookAt) ]_vars

C7_Witness ==
  /\ last = Call("pitch", <<2>>)
  /\ calls = 1
  /\ position = Origin
  /\ viewMatrix = PitchedView

\* C8: from a default camera, rotate(angles (0, -90, 0)) gives the view matrix
\* lookAt(origin, (-1,0,0), (0,1,0)); yaw(90) gives lookAt(origin, (1,0,0),
\* (0,1,0)); roll(90) gives lookAt(origin, (0,0,-1), (1,0,0)): roll keeps
\* the facing direction and turns the up vector.
C8_FacingConvention ==
  [][ /\ (DefaultPose /\ Step("rotate(angles)") /\ last'.args = <<(<<0, -2, 0>>)>>) =>
           viewMatrix' = glm_lookAt(Origin, ivec3(-1, 0, 0), AxisY)
      /\ (DefaultPose /\ Step("yaw") /\ last'.args = <<2>>) =>
           viewMatrix' = glm_lookAt(Origin, ivec3(1, 0, 0), AxisY)
      /\ (DefaultPose /\ Step("roll") /\ last'.args = <<2>>) =>
           /\ viewMatrix' = glm_lookAt(Origin, ivec3(0, 0, -1), AxisX)
           /\ Facing(viewMatrix') = Facing(viewMatrix)
           /\ LocalAxisInWorld(viewMatrix, 2) = AxisY
           /\ LocalAxisInWorld(viewMatrix', 2) = AxisX ]_vars

C8_Witness ==
  /\ last = Call("roll", <<2>>)
  /\ calls = 1
  /\ position = Origin
  /\ viewMatrix = glm_lookAt(Origin, ivec3(0, 0, -1), AxisX)

\* C9: setOrientation(getOrientation()) and setPosition(getPosition()) leave
\* position, orientation and the view matrix unchanged.
C9_RoundTrip ==
  [][ (Step("setOrientation(getOrientation())") \/ Step("setPosition(getPosition())"))
        => pose' = pose ]_vars

C9_Witness ==
  /\ last.op = "setOrientation(getOrientation())"
  /\ calls = 2
  /\ orientation \notin {QuatIdentity, QuatY180}
  /\ position # Origin

\* C10: setPosition leaves the orientation unchanged; setX, setY, setZ change
\* only the named position component and leave the orientation unchanged;
\* every orientation mutator leaves the position unchanged; the accessors
\* change nothing.
C10_Frame ==
  [][ /\ (\E op \in PositionMutators : Step(op)) => orientation' = orientation
      /\ Step("setPosition") => position' = last'.args[1]
      /\ Step("setX") =>
           position' = <<last'.args[1], position[2], position[3]>>
      /\ Step("setY") =>
           position' = <<position[1], last'.args[1], position[3]>>
      /\ Step("setZ") =>
           position' = <<position[1], position[2], last'.args[1]>>
      /\ (\E op \in OrientationMutators : Step(op)) => position' = position
      /\ calls' = calls => pose' = pose ]_vars

C10_Witness ==
  /\ last.op = "setY"
  /\ calls = 2
  /\ position[1] # Zero
  /\ position[2] = Frac(5, 2)
  /\ position[3] # Zero
  /\ orientation # QuatIdentity

====
